---- MODULE Spec2Model ----
(***************************************************************************)
(* Model of HashTable.cpp: a hash table of Bid records with a fixed number *)
(* of buckets and separate chaining.  The head node of every bucket lives  *)
(* inline in the vector `nodes`; overflow nodes are allocated with `new`   *)
(* and linked through `next`.                                              *)
(*                                                                         *)
(* Encodings.                                                              *)
(*  - A string is a sequence of one-character strings, so that atoi and    *)
(*    the text comparison of identifiers work on the characters.           *)
(*  - A 32-bit word is the integer with the same two's-complement bit      *)
(*    pattern (TLC integers are 32 bits wide), so UINT_MAX is -1 and the   *)
(*    int -> unsigned conversion of hash's argument keeps the pattern.     *)
(*  - A Node* is an integer: nullptr is 0, the address of the a-th node    *)
(*    obtained from `new` is a (addresses are never reused, so that every  *)
(*    allocation keeps its own release count), and &nodes.at(i) is -(i+1). *)
(***************************************************************************)
EXTENDS Integers, Sequences, FiniteSets, TLC

VARIABLES
    tableSize,  \* HashTable::tableSize
    nodes,      \* HashTable::nodes, a function on 0..size-1
    heap,       \* the Node objects obtained from `new`, by address
    freed,      \* per address, how many times `delete` was applied to it
    phase,      \* "live", "destroyed" (after ~HashTable) or "aborted"
    ctorArg,    \* the constructor call: whether a size was given, and the size
    lastOp,     \* the last call: its name and arguments
    pre,        \* the table (nodes, heap, freed) at the start of the last call
    ret,        \* what the last call returned (Search)
    out,        \* what the last call wrote to cout (PrintAll)
    insOnly,    \* while the calls so far were Search, PrintAll and Insert of
                \* pairwise distinct identifiers: the bids inserted
    held,       \* the identifiers inserted and not removed since
    pc,         \* main: "menu" in the loop, "exited" after it, "done" after
                \* `delete bidTable`; "none" for a table used without main
    choice,     \* main's choice
    bidKey,     \* main's bidKey
    console     \* what main wrote for the last selection, the menu, the
                \* times and PrintAll's lines (in out) left out

\* the variables of main
mainVars == <<pc, choice, bidKey, console>>

vars ==
    <<tableSize, nodes, heap, freed, phase, ctorArg, lastOp, pre, ret, out,
      insOnly, held, pc, choice, bidKey, console>>

----------------------------------------------------------------------------
(* Bounds of the model *)

\* at most this many `new Node` over a run
MaxAlloc == 2

\* the longest identifier text handed to the first call on a new table
MaxTextLen == 3

----------------------------------------------------------------------------
(* Program constants *)

DEFAULT_SIZE == 179

\* bit pattern 0xFFFFFFFF
UINT_MAX == -1

nullptr == 0

\* the sizes handed to HashTable(unsigned int size)
CtorSizes == {0, 2, 3}

----------------------------------------------------------------------------
(* Bid *)

\* Bid(): empty strings, amount 0.0
DefaultBid == [bidId |-> <<>>, title |-> <<>>, fund |-> <<>>, amount |-> 0]

\* the identifiers used by the callers of the model
BidIds ==
    { <<"0">>, <<"2">>, <<"x">> }

\* the bids the callers insert: one per identifier, and a second one, with
\* another title, fund and amount, for the identifier "0"
Bids ==
    { [bidId |-> i, title |-> <<"a">>, fund |-> <<"f">>, amount |-> 10] :
        i \in BidIds }
    \cup { [bidId |-> <<"0">>, title |-> <<"b">>, fund |-> <<"g">>, amount |-> 20] }

----------------------------------------------------------------------------
(* atoi and hash *)

DigitChars == <<"0", "1", "2", "3", "4", "5", "6", "7", "8", "9">>

IsDigit(c) == \E d \in 1..Len(DigitChars) : DigitChars[d] = c

DigitVal(c) == (CHOOSE d \in 1..Len(DigitChars) : DigitChars[d] = c) - 1

IsSpace(c) == c \in {" ", "\t", "\n", "\r", "\f"}

RECURSIVE SkipSpace(_)
SkipSpace(s) ==
    IF s # <<>> /\ IsSpace(Head(s)) THEN SkipSpace(Tail(s)) ELSE s

RECURSIVE AtoiDigits(_, _)
AtoiDigits(s, acc) ==
    IF s = <<>> \/ ~IsDigit(Head(s))
    THEN acc
    ELSE AtoiDigits(Tail(s), acc * 10 + DigitVal(Head(s)))

\* atoi(str.c_str()): white space, an optional sign, then the leading digits;
\* 0 when there are none (a number outside int is undefined and not modelled)
atoi(s) ==
    LET t == SkipSpace(s)
        signed == t # <<>> /\ Head(t) \in {"+", "-"}
        u == IF signed THEN Tail(t) ELSE t
        v == AtoiDigits(u, 0)
    IN  IF signed /\ Head(t) = "-" THEN 0 - v ELSE v

\* 2^32 mod n, for n > 0
TwoTo32Mod(n) == (((2 ^ 16) % n) * ((2 ^ 16) % n)) % n

\* the unsigned remainder of the 32-bit word w by n > 0
UMod(w, n) ==
    IF w >= 0 THEN w % n ELSE ((w % n) + TwoTo32Mod(n)) % n

\* faulty variant of hash: the remainder is taken in signed arithmetic, as
\* with an int tableSize, and is negative for a negative key
hash_Signed(key) ==
    IF tableSize = 0
    THEN {[trap |-> TRUE, val |-> 0]} \cup
         {[trap |-> FALSE, val |-> v] : v \in {0, UINT_MAX}}
    ELSE {[trap |-> FALSE,
           val |-> IF key < 0 THEN 0 - ((0 - key) % tableSize) ELSE key % tableSize]}

\* hash(int key): key % tableSize in unsigned arithmetic.  The outcomes: with
\* tableSize = 0 the division is undefined: it traps, or yields some word.
hash(key) ==
    IF tableSize = 0
    THEN {[trap |-> TRUE, val |-> 0]} \cup
         {[trap |-> FALSE, val |-> v] : v \in {0, UINT_MAX}}
    ELSE {[trap |-> FALSE, val |-> UMod(key, tableSize)]}

\* nodes.at(i) throws std::out_of_range unless i < nodes.size()
InRange(t, i) == i \in DOMAIN t.nodes

----------------------------------------------------------------------------
(* Node and pointers *)

\* Node(): key = UINT_MAX, next = nullptr, bid = Bid()
DefaultNode == [bid |-> DefaultBid, key |-> UINT_MAX, next |-> nullptr]

\* Node(aBid, aKey)
NewNode(aBid, aKey) == [bid |-> aBid, key |-> aKey, next |-> nullptr]

\* &nodes.at(i)
BucketPtr(i) == 0 - (i + 1)

\* *p in table t
Deref(t, p) == IF p < 0 THEN t.nodes[0 - p - 1] ELSE t.heap[p]

\* *p = n in table t
Store(t, p, n) ==
    IF p < 0
    THEN [t EXCEPT !.nodes[0 - p - 1] = n]
    ELSE [t EXCEPT !.heap[p] = n]

\* the table as one value
Cur == [nodes |-> nodes, heap |-> heap, freed |-> freed]

\* the while loop shared by Insert and Remove: advance while node is not null
\* and its bid has another id; yields the final node and prev
RECURSIVE Walk(_, _, _, _)
Walk(t, node, prev, bidId) ==
    IF node # nullptr /\ Deref(t, node).bid.bidId # bidId
    THEN Walk(t, Deref(t, node).next, node, bidId)
    ELSE [node |-> node, prev |-> prev]

----------------------------------------------------------------------------
(* The operations on a table t, given the bucket index key *)

\* faulty variant of InsertAt: the new node is never linked (prev->next is
\* not assigned)
InsertAt_NoLink(t, key, bid) ==
    LET node == BucketPtr(key) IN
    IF Deref(t, node).key = UINT_MAX
    THEN Store(t, node, [bid |-> bid, key |-> key, next |-> nullptr])
    ELSE LET w == Walk(t, node, nullptr, bid.bidId) IN
         IF w.node = nullptr
         THEN [t EXCEPT !.heap = Append(@, NewNode(bid, key)),
                        !.freed = Append(@, 0)]
         ELSE t

\* faulty variant of InsertAt: a node with the same id gets the new bid
InsertAt_Upsert(t, key, bid) ==
    LET node == BucketPtr(key) IN
    IF Deref(t, node).key = UINT_MAX
    THEN Store(t, node, [bid |-> bid, key |-> key, next |-> nullptr])
    ELSE LET w == Walk(t, node, nullptr, bid.bidId) IN
         IF w.node = nullptr
         THEN LET a == Len(t.heap) + 1
                  t1 == [t EXCEPT !.heap = Append(@, NewNode(bid, key)),
                                  !.freed = Append(@, 0)]
              IN  Store(t1, w.prev, [Deref(t1, w.prev) EXCEPT !.next = a])
         ELSE Store(t, w.node, [Deref(t, w.node) EXCEPT !.bid = bid])

\* faulty variant of InsertAt: the new node is linked right after the head
\* instead of after the last node
InsertAt_AfterHead(t, key, bid) ==
    LET node == BucketPtr(key) IN
    IF Deref(t, node).key = UINT_MAX
    THEN Store(t, node, [bid |-> bid, key |-> key, next |-> nullptr])
    ELSE LET w == Walk(t, node, nullptr, bid.bidId) IN
         IF w.node = nullptr
         THEN LET a == Len(t.heap) + 1
                  n == [NewNode(bid, key) EXCEPT !.next = Deref(t, node).next]
                  t1 == [t EXCEPT !.heap = Append(@, n),
                                  !.freed = Append(@, 0)]
              IN  Store(t1, node, [Deref(t1, node) EXCEPT !.next = a])
         ELSE t

\* faulty variant of InsertAt: the walk does not compare identifiers, so a
\* bid is appended although its identifier is in the chain
InsertAt_NoDupCheck(t, key, bid) ==
    LET node == BucketPtr(key) IN
    IF Deref(t, node).key = UINT_MAX
    THEN Store(t, node, [bid |-> bid, key |-> key, next |-> nullptr])
    ELSE LET ps == 
                 LET RECURSIVE F(_)
                     F(p) == IF p = nullptr THEN <<>>
                             ELSE <<p>> \o F(Deref(t, p).next)
                 IN  F(node)
             a == Len(t.heap) + 1
             t1 == [t EXCEPT !.heap = Append(@, NewNode(bid, key)),
                             !.freed = Append(@, 0)]
         IN  Store(t1, ps[Len(ps)], [Deref(t1, ps[Len(ps)]) EXCEPT !.next = a])

\* faulty variant of InsertAt: identifiers are compared before the slot is
\* tested for emptiness, so an EMPTY slot that still carries the identifier
\* keeps its old bid
InsertAt_KeepsStale(t, key, bid) ==
    LET node == BucketPtr(key) IN
    IF Deref(t, node).key = UINT_MAX
    THEN IF Deref(t, node).bid.bidId = bid.bidId
         THEN Store(t, node, [Deref(t, node) EXCEPT !.key = key, !.next = nullptr])
         ELSE Store(t, node, [bid |-> bid, key |-> key, next |-> nullptr])
    ELSE LET w == Walk(t, node, nullptr, bid.bidId) IN
         IF w.node = nullptr
         THEN LET a == Len(t.heap) + 1
                  t1 == [t EXCEPT !.heap = Append(@, NewNode(bid, key)),
                                  !.freed = Append(@, 0)]
              IN  Store(t1, w.prev, [Deref(t1, w.prev) EXCEPT !.next = a])
         ELSE t

\* Insert, after key was computed.  `new Node(bid, key)` takes the next
\* address, with no release counted yet.
InsertAt(t, key, bid) ==
    LET node == BucketPtr(key) IN
    IF Deref(t, node).key = UINT_MAX
    THEN Store(t, node, [bid |-> bid, key |-> key, next |-> nullptr])
    ELSE LET w == Walk(t, node, nullptr, bid.bidId) IN
         IF w.node = nullptr
         THEN LET a == Len(t.heap) + 1
                  t1 == [t EXCEPT !.heap = Append(@, NewNode(bid, key)),
                                  !.freed = Append(@, 0)]
              IN  Store(t1, w.prev, [Deref(t1, w.prev) EXCEPT !.next = a])
         ELSE t

\* whether Insert reaches `new Node`
InsertAllocates(t, key, bid) ==
    /\ Deref(t, BucketPtr(key)).key # UINT_MAX
    /\ Walk(t, BucketPtr(key), nullptr, bid.bidId).node = nullptr

\* faulty variant of RemoveAt: the splice cuts the chain after prev
\* (prev->next = nullptr)
RemoveAt_Truncate(t, key, bidId) ==
    LET w == Walk(t, BucketPtr(key), nullptr, bidId) IN
    IF w.node # nullptr
    THEN IF w.prev = nullptr
         THEN [t EXCEPT !.nodes[key].key = UINT_MAX,
                        !.nodes[key].next = nullptr]
         ELSE LET t1 == Store(t, w.prev, [Deref(t, w.prev) EXCEPT !.next = nullptr])
              IN  [t1 EXCEPT !.freed[w.node] = @ + 1,
                             !.heap[w.node] = DefaultNode]
    ELSE t

\* faulty variant of RemoveAt: without the test node != nullptr, a walk that
\* found nothing empties the bucket
RemoveAt_Unmatched(t, key, bidId) ==
    LET w == Walk(t, BucketPtr(key), nullptr, bidId) IN
    IF w.node # nullptr /\ w.prev # nullptr
    THEN LET t1 == Store(t, w.prev,
                         [Deref(t, w.prev) EXCEPT !.next = Deref(t, w.node).next])
         IN  [t1 EXCEPT !.freed[w.node] = @ + 1,
                        !.heap[w.node] = DefaultNode]
    ELSE [t EXCEPT !.nodes[key].key = UINT_MAX,
                   !.nodes[key].next = nullptr]

\* faulty variant of RemoveAt: a matched head marks nodes.at(0) instead of
\* nodes.at(key)
RemoveAt_WrongSlot(t, key, bidId) ==
    LET w == Walk(t, BucketPtr(key), nullptr, bidId) IN
    IF w.node # nullptr
    THEN IF w.prev = nullptr
         THEN [t EXCEPT !.nodes[0].key = UINT_MAX,
                        !.nodes[0].next = nullptr]
         ELSE LET t1 == Store(t, w.prev,
                              [Deref(t, w.prev) EXCEPT !.next = Deref(t, w.node).next])
              IN  [t1 EXCEPT !.freed[w.node] = @ + 1,
                             !.heap[w.node] = DefaultNode]
    ELSE t

\* Remove, after key was computed.  `delete node` counts one release of the
\* address and ends the object (its slot goes back to Node()'s values).
RemoveAt(t, key, bidId) ==
    LET w == Walk(t, BucketPtr(key), nullptr, bidId) IN
    IF w.node # nullptr
    THEN IF w.prev = nullptr
         THEN [t EXCEPT !.nodes[key].key = UINT_MAX,
                        !.nodes[key].next = nullptr]
         ELSE LET t1 == Store(t, w.prev,
                              [Deref(t, w.prev) EXCEPT !.next = Deref(t, w.node).next])
              IN  [t1 EXCEPT !.freed[w.node] = @ + 1,
                             !.heap[w.node] = DefaultNode]
    ELSE t

\* Search's loop from node on
RECURSIVE SearchFrom(_, _, _)
SearchFrom(t, node, bidId) ==
    IF node = nullptr
    THEN DefaultBid
    ELSE IF Deref(t, node).bid.bidId = bidId
         THEN Deref(t, node).bid
         ELSE SearchFrom(t, Deref(t, node).next, bidId)

\* Search, after key was computed
SearchAt(t, key, bidId) == SearchFrom(t, BucketPtr(key), bidId)

\* faulty variant of PrintChain: the loop tests node->next, so the last
\* chained node is not written
RECURSIVE PrintChain_SkipsLast(_, _)
PrintChain_SkipsLast(t, node) ==
    IF node = nullptr \/ Deref(t, node).next = nullptr
    THEN <<>>
    ELSE <<[kind |-> "chain", bid |-> Deref(t, node).bid]>>
         \o PrintChain_SkipsLast(t, Deref(t, node).next)

\* PrintAll's inner loop: the lines of the chained nodes from node on
RECURSIVE PrintChain(_, _)
PrintChain(t, node) ==
    IF node = nullptr
    THEN <<>>
    ELSE <<[kind |-> "chain", bid |-> Deref(t, node).bid]>>
         \o PrintChain(t, Deref(t, node).next)

\* the lines of PrintAll's loop body for bucket i
PrintBucket(t, i) ==
    LET node == t.nodes[i] IN
    IF node.key # UINT_MAX
    THEN <<[kind |-> "head", key |-> i, bid |-> node.bid]>>
         \o PrintChain(t, node.next)
    ELSE <<>>

\* the lines of PrintAll's outer loop for i = lo, ..., hi - 1 in this order
\* (the iterations are split in two halves to keep the evaluation shallow)
RECURSIVE PrintFrom(_, _, _)
PrintFrom(t, lo, hi) ==
    IF ~(lo < hi)
    THEN <<>>
    ELSE IF lo + 1 = hi
         THEN PrintBucket(t, lo)
         ELSE LET mid == (lo + hi) \div 2
              IN  PrintFrom(t, lo, mid) \o PrintFrom(t, mid, hi)

\* the lines PrintAll writes
PrintAllLines(t) == PrintFrom(t, 0, Cardinality(DOMAIN t.nodes))

----------------------------------------------------------------------------
(* Initial states: after HashTable() or HashTable(size) *)

\* nodes.resize(n) on the empty vector: n nodes made by Node()
EmptyNodes(n) == [i \in 0..(n - 1) |-> DefaultNode]

\* faulty variant of Construct: HashTable(size) does not assign tableSize
Construct_IgnoresSize(arg) ==
    [tableSize |-> DEFAULT_SIZE, nodes |-> EmptyNodes(DEFAULT_SIZE)]

\* HashTable() and HashTable(size): tableSize and nodes after the constructor
Construct(arg) ==
    LET n == IF arg.given THEN arg.size ELSE DEFAULT_SIZE
    IN  [tableSize |-> n, nodes |-> EmptyNodes(n)]

\* the constructor calls HashTable(n), for the sizes above
SizedCalls == {[given |-> TRUE, size |-> n] : n \in CtorSizes}

\* the constructor call HashTable()
DefaultCall == [given |-> FALSE, size |-> 0]

NoOp == [name |-> "none", bidId |-> <<>>, bid |-> DefaultBid]

Void == [ok |-> FALSE, bids |-> {}]

\* insOnly after the call op
InsertOnlyAfter(op) ==
    IF op.name = "Insert"
    THEN IF insOnly.ok /\ \A b \in insOnly.bids : b.bidId # op.bidId
         THEN [ok |-> TRUE, bids |-> insOnly.bids \cup {op.bid}]
         ELSE Void
    ELSE IF op.name = "Remove" THEN Void ELSE insOnly

\* held after the call op
HeldAfter(op) ==
    IF op.name = "Insert"
    THEN held \cup {op.bidId}
    ELSE IF op.name = "Remove" THEN held \ {op.bidId} ELSE held

\* main wrote nothing yet
NoMsg == [text |-> "", key |-> <<>>, bid |-> DefaultBid, count |-> 0]

\* the table is used by a caller other than main
NoMain ==
    /\ pc = "none"
    /\ choice = 0
    /\ bidKey = <<>>
    /\ console = NoMsg

\* the table after one of the constructor calls
TableInit(calls) ==
    /\ ctorArg \in calls
    /\ tableSize = Construct(ctorArg).tableSize
    /\ nodes = Construct(ctorArg).nodes
    /\ insOnly = [ok |-> TRUE, bids |-> {}]
    /\ held = {}
    /\ heap = <<>>
    /\ freed = <<>>
    /\ phase = "live"
    /\ lastOp = NoOp
    /\ pre = [nodes |-> nodes, heap |-> heap, freed |-> freed]
    /\ ret = DefaultBid
    /\ out = <<>>

\* the states after one of the constructor calls
InitWith(calls) == TableInit(calls) /\ NoMain

\* a table made by HashTable(size)
Init == InitWith(SizedCalls)

\* a table made by HashTable() or HashTable(size)
InitAny == InitWith(SizedCalls \cup {DefaultCall})

----------------------------------------------------------------------------
(* Actions *)

\* the call computed its bucket index h and nodes.at did not throw
Indexed(h) == ~h.trap /\ InRange(Cur, h.val)

\* the division trapped or nodes.at threw: nothing catches it
Abort(op) ==
    /\ phase' = "aborted"
    /\ lastOp' = op
    /\ pre' = Cur
    /\ ret' = DefaultBid
    /\ out' = <<>>
    /\ insOnly' = InsertOnlyAfter(op)
    /\ UNCHANGED <<tableSize, nodes, heap, freed, ctorArg, held>>

\* the call ran on and left the table t
Return(op, t, r, o) ==
    /\ nodes' = t.nodes
    /\ heap' = t.heap
    /\ freed' = t.freed
    /\ lastOp' = op
    /\ pre' = Cur
    /\ ret' = r
    /\ out' = o
    /\ insOnly' = InsertOnlyAfter(op)
    /\ held' = HeldAfter(op)
    /\ UNCHANGED <<tableSize, phase, ctorArg>>

Insert(bid) ==
    /\ phase = "live"
    /\ \E h \in hash(atoi(bid.bidId)) :
         LET op == [name |-> "Insert", bidId |-> bid.bidId, bid |-> bid] IN
         IF Indexed(h)
         THEN /\ InsertAllocates(Cur, h.val, bid) => Len(heap) < MaxAlloc
              /\ Return(op, InsertAt(Cur, h.val, bid), DefaultBid, <<>>)
         ELSE Abort(op)

Remove(bidId) ==
    /\ phase = "live"
    /\ \E h \in hash(atoi(bidId)) :
         LET op == [name |-> "Remove", bidId |-> bidId, bid |-> DefaultBid] IN
         IF Indexed(h)
         THEN Return(op, RemoveAt(Cur, h.val, bidId), DefaultBid, <<>>)
         ELSE Abort(op)

Search(bidId) ==
    /\ phase = "live"
    /\ \E h \in hash(atoi(bidId)) :
         LET op == [name |-> "Search", bidId |-> bidId, bid |-> DefaultBid] IN
         IF Indexed(h)
         THEN Return(op, Cur, SearchAt(Cur, h.val, bidId), <<>>)
         ELSE Abort(op)

PrintAll ==
    /\ phase = "live"
    /\ Return([name |-> "PrintAll", bidId |-> <<>>, bid |-> DefaultBid],
              Cur, DefaultBid, PrintAllLines(Cur))

\* ~HashTable(): nodes.clear(); Node has no destructor, nothing is deleted
Destroy ==
    /\ phase = "live"
    /\ phase' = "destroyed"
    /\ nodes' = EmptyNodes(0)
    /\ lastOp' = [name |-> "Destroy", bidId |-> <<>>, bid |-> DefaultBid]
    /\ pre' = Cur
    /\ ret' = DefaultBid
    /\ out' = <<>>
    /\ UNCHANGED <<tableSize, heap, freed, ctorArg, insOnly, held>>

\* the calls of a caller other than main
Next ==
    \/ \E bid \in Bids : Insert(bid) /\ UNCHANGED mainVars
    \/ \E bidId \in BidIds : Remove(bidId) /\ UNCHANGED mainVars
    \/ \E bidId \in BidIds : Search(bidId) /\ UNCHANGED mainVars
    \/ PrintAll /\ UNCHANGED mainVars
    \/ Destroy /\ UNCHANGED mainVars

Spec == Init /\ [][Next]_vars

SpecAny == InitAny /\ [][Next]_vars

----------------------------------------------------------------------------
(* The first call on a new table, with any identifier text *)

\* the characters of the identifier texts: digits, signs, white space, a letter
TextChars == {"0", "1", "9", "-", "+", " ", "x"}

\* the identifier texts of at most MaxTextLen characters
IdTexts == UNION {[1..n -> TextChars] : n \in 0..MaxTextLen}

\* the sizes of the tables the first call is made on, besides HashTable()
HashSizes == {1, 2, 7}

\* the bid a caller builds for an identifier text
BidFor(text) == [bidId |-> text, title |-> <<"a">>, fund |-> <<"f">>, amount |-> 10]

InitHash ==
    InitWith({[given |-> TRUE, size |-> n] : n \in HashSizes} \cup {DefaultCall})

FirstInsert(text) ==
    lastOp = NoOp /\ Insert(BidFor(text)) /\ UNCHANGED mainVars

FirstRemove(text) == lastOp = NoOp /\ Remove(text) /\ UNCHANGED mainVars

FirstSearch(text) == lastOp = NoOp /\ Search(text) /\ UNCHANGED mainVars

NextHash ==
    \/ \E text \in IdTexts : FirstInsert(text)
    \/ \E text \in IdTexts : FirstRemove(text)
    \/ \E text \in IdTexts : FirstSearch(text)

SpecHash == InitHash /\ [][NextHash]_vars

----------------------------------------------------------------------------
(* main: the menu loop on the table made by `new HashTable()` *)

\* the default bidKey
DefaultKey == <<"9", "8", "2", "2", "3">>

\* the values of bidKey at the start: the default, or argv[2]
StartKeys == {DefaultKey, <<"x">>}

\* the numbers read into choice
Choices == {0, 1, 2, 3, 4, 5, 9}

\* a row of the CSV file: the columns 0, 1, 4 and 8 that loadBids reads
Row(title, bidId, amount, fund) ==
    [col0 |-> title, col1 |-> bidId, col4 |-> amount, col8 |-> fund]

\* the rows of the files read: none; three bids, two of them in bucket 0;
\* another bid with the identifier "0"
CsvFiles ==
    { <<>>,
      << Row(<<"a">>, <<"0">>, <<"$", "1", "0">>, <<"f">>),
         Row(<<"a">>, <<"x">>, <<"$", "1", "0">>, <<"f">>),
         Row(<<"a">>, <<"2">>, <<"$", "1", "0">>, <<"f">>) >>,
      << Row(<<"b">>, <<"0">>, <<"$", "2", "0">>, <<"g">>) >> }

\* str without the character ch, then atof (the amounts are whole numbers)
strToDouble(str, ch) == atoi(SelectSeq(str, LAMBDA c : c # ch))

\* the Bid loadBids builds from a row
RowBid(row) ==
    [bidId  |-> row.col1,
     title  |-> row.col0,
     fund   |-> row.col8,
     amount |-> strToDouble(row.col4, "$")]

\* the table after hashTable->Insert of the bids of rows, in order
RECURSIVE LoadRows(_, _)
LoadRows(t, rows) ==
    IF rows = <<>>
    THEN t
    ELSE LoadRows(InsertAt(t, UMod(atoi(RowBid(Head(rows)).bidId), tableSize),
                           RowBid(Head(rows))),
                  Tail(rows))

\* the condition that ends `while (choice != 9)`
LoopEnds_OnUnrecognized(c) == c \notin 1..4

LoopEnds(c) == c = 9

\* cin >> choice read c; the end of the loop body
Read(c) ==
    /\ pc = "menu"
    /\ choice' = c
    /\ pc' = IF LoopEnds(c) THEN "exited" ELSE "menu"

\* what displayBid writes
displayBid(bid) ==
    [text |-> "bid", key |-> bid.bidId, bid |-> bid, count |-> 0]

\* "Bid Id <key> not found."
NotFound(key) ==
    [text |-> "not found", key |-> key, bid |-> DefaultBid, count |-> 0]

\* "Bid Id <key> removed."
Removed(key) ==
    [text |-> "removed", key |-> key, bid |-> DefaultBid, count |-> 0]

\* "<count> bids read"
BidsRead(count) ==
    [text |-> "bids read", key |-> <<>>, bid |-> DefaultBid, count |-> count]

GoodBye == [text |-> "Good bye.", key |-> <<>>, bid |-> DefaultBid, count |-> 0]

InvalidChoice ==
    [text |-> "Invalid choice. Please try again.", key |-> <<>>,
     bid |-> DefaultBid, count |-> 0]

\* main up to the loop
InitMain ==
    /\ TableInit({DefaultCall})
    /\ pc = "menu"
    /\ choice = 0
    /\ bidKey \in StartKeys
    /\ console = NoMsg

\* case 1: loadBids inserts the rows of the file up to the first row whose
\* read throws csv::Error (n of them), and main writes the count
MainLoad ==
    /\ Read(1)
    /\ phase = "live"
    /\ \E file \in CsvFiles : \E n \in 0..Len(file) :
         LET rows == SubSeq(file, 1, n)
             t == LoadRows(Cur, rows)
         IN  /\ Len(t.heap) <= MaxAlloc
             /\ nodes' = t.nodes
             /\ heap' = t.heap
             /\ freed' = t.freed
             /\ held' = held \cup {RowBid(rows[i]).bidId : i \in 1..n}
             /\ console' = BidsRead(n)
    /\ lastOp' = [name |-> "Load", bidId |-> <<>>, bid |-> DefaultBid]
    /\ pre' = Cur
    /\ ret' = DefaultBid
    /\ out' = <<>>
    /\ insOnly' = Void
    /\ UNCHANGED <<tableSize, phase, ctorArg, bidKey>>

\* case 2
MainDisplay ==
    /\ Read(2)
    /\ PrintAll
    /\ console' = NoMsg
    /\ UNCHANGED bidKey

\* case 3
MainFind ==
    /\ Read(3)
    /\ Search(bidKey)
    /\ console' = IF ret'.bidId # <<>> THEN displayBid(ret') ELSE NotFound(bidKey)
    /\ UNCHANGED bidKey

\* case 4: cin >> bidKey read k
MainRemove(k) ==
    /\ Read(4)
    /\ bidKey' = k
    /\ Remove(k)
    /\ console' = Removed(k)

\* case 9
MainExit ==
    /\ Read(9)
    /\ console' = GoodBye
    /\ lastOp' = [name |-> "Exit", bidId |-> <<>>, bid |-> DefaultBid]
    /\ pre' = Cur
    /\ ret' = DefaultBid
    /\ out' = <<>>
    /\ UNCHANGED <<tableSize, nodes, heap, freed, phase, ctorArg, insOnly,
                   held, bidKey>>

\* default
MainInvalid(c) ==
    /\ c \notin {1, 2, 3, 4, 9}
    /\ Read(c)
    /\ console' = InvalidChoice
    /\ lastOp' = [name |-> "Invalid", bidId |-> <<>>, bid |-> DefaultBid]
    /\ pre' = Cur
    /\ ret' = DefaultBid
    /\ out' = <<>>
    /\ UNCHANGED <<tableSize, nodes, heap, freed, phase, ctorArg, insOnly,
                   held, bidKey>>

\* after the loop: delete bidTable
MainTeardown ==
    /\ pc = "exited"
    /\ pc' = "done"
    /\ Destroy
    /\ UNCHANGED <<choice, bidKey, console>>

NextMain ==
    \/ MainLoad
    \/ MainDisplay
    \/ MainFind
    \/ \E k \in BidIds : MainRemove(k)
    \/ MainExit
    \/ \E c \in Choices : MainInvalid(c)
    \/ MainTeardown

SpecMain == InitMain /\ [][NextMain]_vars

----------------------------------------------------------------------------
(* Vocabulary of the properties *)

\* the table is in use and has buckets
Live == phase = "live" /\ tableSize > 0

\* the bucket index Insert, Search and Remove compute for bidId (tableSize > 0)
KeyOf(bidId) == UMod(atoi(bidId), tableSize)

\* the pointers to the nodes linked from p on, in link order
RECURSIVE Follow(_, _)
Follow(t, p) ==
    IF p = nullptr THEN <<>> ELSE <<p>> \o Follow(t, Deref(t, p).next)

\* the records bucket i holds, head first: none when the head slot is EMPTY
Entries(t, i) ==
    IF t.nodes[i].key = UINT_MAX
    THEN <<>>
    ELSE LET ps == Follow(t, BucketPtr(i))
         IN  [k \in 1..Len(ps) |-> Deref(t, ps[k]).bid]

\* the positions of bidId among the records of its bucket
PositionsOf(t, bidId) ==
    {k \in 1..Len(Entries(t, KeyOf(bidId))) :
        Entries(t, KeyOf(bidId))[k].bidId = bidId}

\* bidId is stored: at the head or in an overflow node of its bucket
Stored(t, bidId) == PositionsOf(t, bidId) # {}

StoredAtHead(t, bidId) == 1 \in PositionsOf(t, bidId)

StoredInOverflow(t, bidId) == \E k \in PositionsOf(t, bidId) : k > 1

\* the record stored under bidId
StoredBid(t, bidId) ==
    Entries(t, KeyOf(bidId))[CHOOSE k \in PositionsOf(t, bidId) : TRUE]

\* what Search(bidId) returns on table t
SearchResult(t, bidId) == SearchAt(t, KeyOf(bidId), bidId)

\* the last call was name on bidId and returned
Did(name, bidId) == Live /\ lastOp.name = name /\ lastOp.bidId = bidId

----------------------------------------------------------------------------
(* C1 *)

\* C1: immediately after Remove(id) on a table with buckets, Search(id)
\* reports not-found: it returns the default record, with empty identifier,
\* whether id was stored at the head, in an overflow node, or not at all.
C1_SearchAfterRemoveNotFound ==
    \A bidId \in BidIds :
        Did("Remove", bidId) => SearchResult(Cur, bidId) = DefaultBid

----------------------------------------------------------------------------
(* C2 *)

\* C2: removing the head entry of a bucket whose chain holds further entries
\* keeps those entries: Search of every other identifier the bucket stored
\* still returns its record, and PrintAll emits exactly the remaining records.
C2_HeadRemoveKeepsChain ==
    \A bidId \in BidIds :
        (Did("Remove", bidId) /\ StoredAtHead(pre, bidId)) =>
            /\ \A other \in BidIds \ {bidId} :
                   Stored(pre, other) =>
                       SearchResult(Cur, other) = StoredBid(pre, other)
            /\ Len(PrintAllLines(Cur)) = Len(PrintAllLines(pre)) - 1

----------------------------------------------------------------------------
(* C3 *)

\* C3: after Insert calls only (no Remove) with pairwise distinct identifiers
\* on a table with buckets, Search(id) of every inserted id returns exactly
\* the record inserted with it, also when several ids share a bucket.
C3_SearchReturnsInserted ==
    (Live /\ insOnly.ok) =>
        /\ \A b \in insOnly.bids : SearchResult(Cur, b.bidId) = b
        /\ \A b \in insOnly.bids : lastOp.name = "Search" /\ lastOp.bidId = b.bidId
                                     => ret = b

\* three inserted bids share one bucket, and the last one inserted, in the
\* second overflow node, has just been searched
C3_Witness ==
    /\ Live /\ insOnly.ok /\ Cardinality(insOnly.bids) = 3
    /\ \E i \in DOMAIN nodes : Len(Entries(Cur, i)) = 3
    /\ lastOp.name = "Search"
    /\ PositionsOf(Cur, lastOp.bidId) = {3}
    /\ ret \in insOnly.bids

----------------------------------------------------------------------------
(* C4 *)

\* C4: Insert of a record whose identifier is stored, at the head or in an
\* overflow node of its bucket, changes nothing: nodes, heap and release
\* counts are as before, no node is allocated, and Search of the identifier
\* still returns the record stored before.
C4_DuplicateInsertNoOp ==
    \A b \in Bids :
        (Live /\ lastOp.name = "Insert" /\ lastOp.bid = b /\ Stored(pre, b.bidId)) =>
            /\ Cur = pre
            /\ Len(heap) = Len(pre.heap)
            /\ SearchResult(Cur, b.bidId) = StoredBid(pre, b.bidId)

\* an Insert of another record for an identifier held in an overflow node
C4_Witness ==
    /\ Live /\ lastOp.name = "Insert"
    /\ StoredInOverflow(pre, lastOp.bidId)
    /\ StoredBid(pre, lastOp.bidId) # lastOp.bid
    /\ SearchResult(Cur, lastOp.bidId) # lastOp.bid

----------------------------------------------------------------------------
(* C5 *)

\* seq without its k-th element
Without(seq, k) ==
    [j \in 1..(Len(seq) - 1) |-> IF j < k THEN seq[j] ELSE seq[j + 1]]

\* C5: Remove of an identifier stored in an overflow node removes only that
\* entry: the identifier is no longer stored, every other stored identifier,
\* of that bucket and of all others, is still returned by Search with its
\* record, and each bucket holds the records it held, in the same order.
C5_OverflowRemoveOnlyThat ==
    \A bidId \in BidIds :
        (Did("Remove", bidId) /\ StoredInOverflow(pre, bidId)) =>
            /\ ~Stored(Cur, bidId)
            /\ \A other \in BidIds \ {bidId} :
                   Stored(pre, other) =>
                       SearchResult(Cur, other) = StoredBid(pre, other)
            /\ \A i \in DOMAIN nodes :
                   Entries(Cur, i) =
                       IF i = KeyOf(bidId)
                       THEN Without(Entries(pre, i),
                                    CHOOSE k \in PositionsOf(pre, bidId) : TRUE)
                       ELSE Entries(pre, i)

\* the middle one of three records of a bucket has been removed
C5_Witness ==
    \E bidId \in BidIds :
        /\ Did("Remove", bidId)
        /\ PositionsOf(pre, bidId) = {2}
        /\ Len(Entries(pre, KeyOf(bidId))) = 3
        /\ Len(Entries(Cur, KeyOf(bidId))) = 2

----------------------------------------------------------------------------
(* C6 *)

\* C6: Remove of an identifier that is not stored leaves what can be observed
\* unchanged: Search of every identifier returns what it returned before,
\* PrintAll would write the same lines, and no node is released.
C6_RemoveAbsentNoChange ==
    \A bidId \in BidIds :
        (Did("Remove", bidId) /\ ~Stored(pre, bidId)) =>
            /\ \A q \in BidIds \cup {<<>>} :
                   SearchResult(Cur, q) = SearchResult(pre, q)
            /\ PrintAllLines(Cur) = PrintAllLines(pre)
            /\ freed = pre.freed

\* a Remove walked a chain of two records without finding its identifier
C6_Witness ==
    \E bidId \in BidIds :
        /\ Did("Remove", bidId)
        /\ ~Stored(pre, bidId)
        /\ Len(Entries(pre, KeyOf(bidId))) = 2

----------------------------------------------------------------------------
(* C7 *)

\* the addresses of the nodes linked from the buckets of t
Reachable(t) ==
    {a \in 1..Len(t.heap) :
        \E i \in DOMAIN t.nodes :
            \E k \in 1..Len(Follow(t, BucketPtr(i))) :
                Follow(t, BucketPtr(i))[k] = a}

\* C7: every overflow node allocated by Insert is released exactly once, by
\* a Remove or by the destructor: no node is released twice, no node that
\* is still allocated becomes unreachable, and after the destructor every
\* allocated node has been released.
C7_ReleasedExactlyOnce ==
    /\ \A a \in 1..Len(heap) : freed[a] <= 1
    /\ phase = "live" =>
           \A a \in 1..Len(heap) : freed[a] = 0 => a \in Reachable(Cur)
    /\ phase = "destroyed" => \A a \in 1..Len(heap) : freed[a] = 1

----------------------------------------------------------------------------
(* C8 *)

\* C8: while the table exists, the number of buckets is the size given to
\* the constructor, 179 when none was given, however many entries are stored.
C8_BucketCountFixed ==
    phase # "destroyed" =>
        /\ tableSize = IF ctorArg.given THEN ctorArg.size ELSE 179
        /\ DOMAIN nodes = 0..(tableSize - 1)
        /\ Cardinality(DOMAIN nodes) = tableSize

\* a table made by HashTable() has 179 buckets while it stores 3 entries,
\* one of them in an overflow node
C8_Witness ==
    /\ phase = "live" /\ ~ctorArg.given /\ Cardinality(DOMAIN nodes) = 179
    /\ \A bidId \in BidIds : Stored(Cur, bidId)
    /\ Len(Entries(Cur, 0)) = 2

----------------------------------------------------------------------------
(* C9 *)

\* the number of records held by the buckets of t below bucket i
Offset(t, i) ==
    Cardinality(UNION {{<<j, k>> : k \in 1..Len(Entries(t, j))} :
                          j \in {j \in DOMAIN t.nodes : j < i}})

\* C9: PrintAll writes, for the buckets in ascending index order, the head
\* record of each bucket that is not EMPTY and then its chained records in
\* link order: EMPTY buckets contribute nothing, every stored record is
\* written exactly once, and the table is left unchanged.
C9_PrintAllOrder ==
    (phase = "live" /\ lastOp.name = "PrintAll") =>
        /\ Cur = pre
        /\ Len(out) = Offset(Cur, tableSize)
        /\ \A i \in DOMAIN nodes :
               \A k \in 1..Len(Entries(Cur, i)) :
                   LET ln == out[Offset(Cur, i) + k] IN
                   /\ ln.bid = Entries(Cur, i)[k]
                   /\ ln.kind = IF k = 1 THEN "head" ELSE "chain"
                   /\ k = 1 => ln.key = i

\* PrintAll wrote a bucket of two records, skipped an EMPTY bucket and wrote
\* a bucket of one record
C9_Witness ==
    /\ phase = "live" /\ lastOp.name = "PrintAll" /\ tableSize = 3
    /\ Len(Entries(Cur, 0)) = 2
    /\ Len(Entries(Cur, 1)) = 0
    /\ Len(Entries(Cur, 2)) = 1
    /\ Len(out) = 3

----------------------------------------------------------------------------
(* C10 *)

\* C10: on a table constructed with 0 buckets, Insert, Search and Remove fail
\* safely: no call aborts the program, the table stays empty and Search
\* reports not-found.
C10_ZeroSizeFailsSafely ==
    (ctorArg.given /\ ctorArg.size = 0) =>
        /\ phase # "aborted"
        /\ DOMAIN nodes = {}
        /\ lastOp.name = "Search" => ret = DefaultBid

----------------------------------------------------------------------------
(* C11 *)

\* C11: Search(id) reports not-found whenever the bucket of id is EMPTY or
\* no node of its chain carries id; it returns a record only when a node of
\* a bucket that is not EMPTY matches, and then the first such node's.
C11_SearchFindsOnlyStored ==
    \A bidId \in BidIds :
        Live =>
            /\ SearchResult(Cur, bidId) =
                   IF Stored(Cur, bidId)
                   THEN Entries(Cur, KeyOf(bidId))
                            [CHOOSE k \in PositionsOf(Cur, bidId) :
                                 \A j \in PositionsOf(Cur, bidId) : k <= j]
                   ELSE DefaultBid
            /\ (lastOp.name = "Search" /\ lastOp.bidId = bidId /\ ~Stored(Cur, bidId))
                   => ret = DefaultBid

----------------------------------------------------------------------------
(* C13 *)

\* the position of bidId in its bucket of t
PosOf(t, bidId) == CHOOSE k \in PositionsOf(t, bidId) : TRUE

\* C13: within a bucket the chain order is insertion order: a newly inserted
\* identifier comes after all the entries the chain had, Search leaves every
\* chain as it was, and Remove of a node that is not the head keeps the order
\* of the remaining nodes of the chain.
C13_ChainOrderIsInsertionOrder ==
    /\ \A b \in Bids :
           (Live /\ lastOp.name = "Insert" /\ lastOp.bid = b /\ ~Stored(pre, b.bidId)) =>
               Entries(Cur, KeyOf(b.bidId)) = Append(Entries(pre, KeyOf(b.bidId)), b)
    /\ (Live /\ lastOp.name = "Search") =>
           \A i \in DOMAIN nodes : Entries(Cur, i) = Entries(pre, i)
    /\ \A bidId \in BidIds :
           (Did("Remove", bidId) /\ StoredInOverflow(pre, bidId)) =>
               \A x, y \in BidIds \ {bidId} :
                   (Stored(pre, x) /\ Stored(pre, y) /\ KeyOf(x) = KeyOf(y)) =>
                       /\ Stored(Cur, x) /\ Stored(Cur, y)
                       /\ (PosOf(Cur, x) < PosOf(Cur, y)) = (PosOf(pre, x) < PosOf(pre, y))

\* an Insert has put a third record at the end of a chain
C13_Witness ==
    /\ Live /\ lastOp.name = "Insert"
    /\ ~Stored(pre, lastOp.bidId)
    /\ Len(Entries(pre, KeyOf(lastOp.bidId))) = 2
    /\ PositionsOf(Cur, lastOp.bidId) = {3}

----------------------------------------------------------------------------
(* C14 *)

\* C14: after any Insert and Remove calls, re-inserts after removals
\* included, no chain of a bucket that is not EMPTY holds two nodes with the
\* same identifier.
C14_NoDuplicateInChain ==
    phase = "live" =>
        \A i \in DOMAIN nodes :
            \A j, k \in 1..Len(Entries(Cur, i)) :
                j # k => Entries(Cur, i)[j].bidId # Entries(Cur, i)[k].bidId

\* an Insert, after an overflow node was removed, of an identifier whose
\* walk passed the head and appended it
C14_Witness ==
    /\ Live /\ lastOp.name = "Insert"
    /\ \E a \in 1..Len(pre.heap) : pre.freed[a] = 1
    /\ Len(Entries(pre, KeyOf(lastOp.bidId))) = 1
    /\ PositionsOf(Cur, lastOp.bidId) = {2}

----------------------------------------------------------------------------
(* C15 *)

\* the head slot of bucket i of t and the nodes linked from it
BucketState(t, i) ==
    [head |-> t.nodes[i],
     chain |-> [k \in 1..Len(Follow(t, t.nodes[i].next)) |->
                   Deref(t, Follow(t, t.nodes[i].next)[k])]]

\* C15: Insert(record) and Remove(id) change at most the bucket the
\* identifier maps to: the head slot and the chain of every other bucket
\* are as before the call.
C15_OtherBucketsUnchanged ==
    (Live /\ lastOp.name \in {"Insert", "Remove"}) =>
        \A i \in DOMAIN nodes \ {KeyOf(lastOp.bidId)} :
            BucketState(Cur, i) = BucketState(pre, i)

\* a head was removed from one bucket while another bucket held a chain
C15_Witness ==
    /\ Live /\ lastOp.name = "Remove"
    /\ StoredAtHead(pre, lastOp.bidId)
    /\ \E i \in DOMAIN nodes \ {KeyOf(lastOp.bidId)} : Len(Entries(Cur, i)) = 2

----------------------------------------------------------------------------
(* C12 *)

\* C12: the head slot of a bucket is EMPTY if and only if the bucket holds
\* no entry, the entries of a bucket being the identifiers mapping to it that
\* were inserted and not removed since.
C12_EmptyIffNoEntries ==
    Live =>
        \A i \in DOMAIN nodes :
            (nodes[i].key = UINT_MAX) = ({id \in held : KeyOf(id) = i} = {})

----------------------------------------------------------------------------
(* C18 *)

\* C18: when Remove(id) is followed by Insert(r) with r's identifier id,
\* Search(id) returns r afterwards, with its new title, fund and amount, and
\* not the record stored under id before the removal, whether the removed
\* entry was a head or an overflow node.
C18_ReinsertStoresNew ==
    [][\A b \in Bids :
          (/\ Did("Remove", b.bidId)
           /\ phase' = "live"
           /\ lastOp'.name = "Insert"
           /\ lastOp'.bid = b)
          => SearchAt([nodes |-> nodes', heap |-> heap', freed |-> freed'],
                      KeyOf(b.bidId), b.bidId) = b]_vars

\* an Insert has put a record into an EMPTY head slot that carried another
\* record of the same identifier, left there by its removal
C18_Witness ==
    /\ Live /\ lastOp.name = "Insert"
    /\ pre.nodes[KeyOf(lastOp.bidId)].key = UINT_MAX
    /\ pre.nodes[KeyOf(lastOp.bidId)].bid.bidId = lastOp.bidId
    /\ pre.nodes[KeyOf(lastOp.bidId)].bid # lastOp.bid
    /\ SearchResult(Cur, lastOp.bidId) = lastOp.bid

----------------------------------------------------------------------------
(* C16 *)

\* the value of the character c as a decimal digit
DecDigit(c) ==
    CASE c = "0" -> 0 [] c = "1" -> 1 [] c = "2" -> 2 [] c = "3" -> 3
      [] c = "4" -> 4 [] c = "5" -> 5 [] c = "6" -> 6 [] c = "7" -> 7
      [] c = "8" -> 8 [] c = "9" -> 9

AllDigits(s) ==
    s # <<>> /\ \A k \in 1..Len(s) : s[k] \in {"0", "1", "2", "3", "4", "5", "6", "7", "8", "9"}

\* the number a text of digits denotes, from its last digit on
RECURSIVE DecVal(_)
DecVal(s) ==
    IF s = <<>>
    THEN 0
    ELSE DecVal(SubSeq(s, 1, Len(s) - 1)) * 10 + DecDigit(s[Len(s)])

\* 2^32 mod n, from 2^32 = 2 * (2^31 - 1) + 2
Pow32Mod(n) == ((2147483647 % n) * 2 + 2) % n

\* the text starts with no digit, sign or white space
NonNumeric(s) ==
    s = <<>> \/ Head(s) \notin {"0", "1", "9", "-", "+", " "}

\* the bucket the record of an Insert on a new table went to
Landed == CHOOSE i \in DOMAIN nodes : nodes[i].key # UINT_MAX

\* C16: for every bucket count > 0 and every identifier text, numeric,
\* non-numeric or negative, the index computed by Insert, Search and Remove
\* lies in [0, tableSize): no call indexes outside the bucket array.  A
\* non-negative numeric identifier maps to its value mod tableSize, a
\* non-numeric one to bucket 0, and a negative one to the remainder of its
\* 32-bit unsigned conversion.
C16_IndexInRange ==
    (tableSize > 0 /\ lastOp.name \in {"Insert", "Search", "Remove"}) =>
        /\ phase = "live"
        /\ lastOp.name = "Insert" =>
               /\ \E i \in 0..(tableSize - 1) : nodes[i].key # UINT_MAX
               /\ nodes[Landed].bid = lastOp.bid
               /\ nodes[Landed].key = Landed
               /\ AllDigits(lastOp.bidId) =>
                      Landed = DecVal(lastOp.bidId) % tableSize
               /\ NonNumeric(lastOp.bidId) => Landed = 0
               /\ (Len(lastOp.bidId) > 1 /\ Head(lastOp.bidId) = "-"
                     /\ AllDigits(Tail(lastOp.bidId))
                     /\ DecVal(Tail(lastOp.bidId)) > 0) =>
                      (Landed + DecVal(Tail(lastOp.bidId))) % tableSize
                          = Pow32Mod(tableSize)

\* a bid with a negative identifier was stored in a table of 7 buckets, in
\* a bucket other than 0 and other than 1 mod 7
C16_Witness ==
    /\ tableSize = 7 /\ phase = "live"
    /\ lastOp.name = "Insert" /\ lastOp.bidId = <<"-", "1">>
    /\ nodes[Landed].bid.bidId = <<"-", "1">>
    /\ Landed \notin {0, 1}

----------------------------------------------------------------------------
(* C17 *)
(* The menu loop ends exactly when selection 9 is read.  Every other       *)
(* selection (1, 2, 3, 4 or an unrecognized value) is handled by its case  *)
(* and returns to the menu prompt; an unrecognized selection is reported   *)
(* and leaves the table unchanged; once 9 is selected the loop is left and *)
(* the only step that follows tears the table down.                        *)

\* the case of main that handles the selection c
HandlerOf(c) ==
    CASE c = 1 -> "Load"
      [] c = 2 -> "PrintAll"
      [] c = 3 -> "Search"
      [] c = 4 -> "Remove"
      [] c = 9 -> "Exit"
      [] OTHER -> "Invalid"

----------------------------------------------------------------------------
(* C19 *)
(* In the menu loop, option 4 replaces bidKey with the identifier k that   *)
(* was entered and reports k removed; when option 3 is selected next, it   *)
(* reports that bid id k is not found and displays no bid.                 *)

C19_FindAfterRemoveNotFound ==
    [][ /\ (pc = "menu" /\ choice' = 4) =>
             /\ bidKey' = lastOp'.bidId
             /\ console' = Removed(bidKey')
        /\ (pc = "menu" /\ choice = 4 /\ choice' = 3) =>
             console' = NotFound(bidKey)
      ]_vars

====
